---- MODULE Spec2Model ----
\* A model of scidbpy/relational.py: merge (the join orchestrator),
\* _apply_suffix (the schema disambiguator) and _prepare_join_schema (the key
\* materializer).  Names are sequences of characters, so that suffixing,
\* str.endswith and str.replace are computed as Python computes them.
\* An array handle is a record [cols, rows]: cols is the sequence of columns
\* (name, kind "dim"/"att", declared type, gen = created by the key
\* materializer), rows the sequence of cells, each a sequence of values
\* aligned with cols.
EXTENDS Integers, Sequences, FiniteSets, TLC

VARIABLES
    args,       \* the arguments merge was called with (never changes)
    left,       \* local `left` of merge (rebound by every transform)
    right,      \* local `right` of merge
    left_on,    \* local `left_on` of merge (a list once validation resolved it)
    right_on,   \* local `right_on` of merge
    keep,       \* local `keep` of merge
    result,     \* local `result` of merge
    prov,       \* for each row of result, the <<left row, right row>> it joins
    disambiguated, \* what _apply_suffix returned (history)
    calls,      \* the collaborator calls issued so far
    pc,         \* the last pipeline stage of merge that ran
    err         \* "none", or the error that ended merge

vars == <<args, left, right, left_on, right_on, keep, result, prov, disambiguated,
          calls, pc, err>>

----------------------------------------------------------------------------
\* Bounds of the model

MaxCols == 2        \* columns of an input array
MaxKeys == 2        \* length of an explicitly given key list
MaxRows == 2        \* rows of an input array (data specification)
MaxVal  == 2        \* cell values are 1..MaxVal

----------------------------------------------------------------------------
\* Strings

Range(s) == {s[i] : i \in DOMAIN s}

NoDup(s) == \A i, j \in DOMAIN s : i # j => s[i] # s[j]

\* str.endswith
EndsWith(a, s) ==
    /\ Len(a) >= Len(s)
    /\ SubSeq(a, Len(a) - Len(s) + 1, Len(a)) = s

OccursAt(a, i, old) ==
    /\ i + Len(old) - 1 <= Len(a)
    /\ SubSeq(a, i, i + Len(old) - 1) = old

RECURSIVE ReplaceFrom(_, _, _, _)
ReplaceFrom(a, i, old, new) ==
    IF i > Len(a) THEN <<>>
    ELSE IF OccursAt(a, i, old)
         THEN new \o ReplaceFrom(a, i + Len(old), old, new)
         ELSE <<a[i]>> \o ReplaceFrom(a, i + 1, old, new)

\* str.replace(old, new) for a non-empty old: every non-overlapping
\* occurrence, left to right
Replace(a, old, new) == ReplaceFrom(a, 1, old, new)

\* The literal "_idx" of '%s_idx' % l
IdxSuffix == <<"_", "i", "d", "x">>

RowLabel == <<"_", "r", "o", "w">>

----------------------------------------------------------------------------
\* Array handles and their introspection

att_names(x) ==
    LET a == SelectSeq(x.cols, LAMBDA c : c.kind = "att")
    IN  [i \in DOMAIN a |-> a[i].name]

dim_names(x) ==
    LET d == SelectSeq(x.cols, LAMBDA c : c.kind = "dim")
    IN  [i \in DOMAIN d |-> d[i].name]

\* set(x.att_names) | set(x.dim_names)
NameSet(x) == Range(att_names(x)) \cup Range(dim_names(x))

ColNames(x) == [i \in DOMAIN x.cols |-> x.cols[i].name]

ColIdx(x, n) == CHOOSE k \in DOMAIN x.cols : x.cols[k].name = n

\* the engine rejects a schema in which two columns share a name
SchemaOk(x) == NoDup(ColNames(x))

IsIntType(t) == t \in {"int64"}

\* the columns of x at the positions idxs, in that order
Pick(x, idxs) ==
    [cols |-> [k \in DOMAIN idxs |-> x.cols[idxs[k]]],
     rows |-> [i \in DOMAIN x.rows |->
                  [k \in DOMAIN idxs |-> x.rows[i][idxs[k]]]]]

\* the positions of the dimensions, and of the attributes, of x
DimPos(x) == SelectSeq([k \in DOMAIN x.cols |-> k], LAMBDA k : x.cols[k].kind = "dim")

AttPos(x) == SelectSeq([k \in DOMAIN x.cols |-> k], LAMBDA k : x.cols[k].kind = "att")

----------------------------------------------------------------------------
\* Collaborators

\* utils.as_list: a bare string becomes a one-element list
as_list(x) == IF x.tag = "str" THEN <<x.v>> ELSE x.v

\* Python truth of an argument: None, '' and [] are false
Truthy(x) == x.tag # "none" /\ x.v # <<>>

RECURSIVE LabelFrom(_, _, _)
LabelFrom(hint, taken, k) ==
    LET cand == IF k = 0 THEN hint ELSE hint \o <<"_", ToString(k)>>
    IN  IF cand \notin taken THEN cand ELSE LabelFrom(hint, taken, k + 1)

\* utils._new_attribute_label: a name that collides with nothing in x
new_attribute_label(hint, x) == LabelFrom(hint, NameSet(x), 0)

\* x.attribute_rename(d, d + suffix, ...) for the d of dups that are attributes
attribute_rename(x, dups, suffix) ==
    [x EXCEPT !.cols =
        [k \in DOMAIN x.cols |->
            IF x.cols[k].kind = "att" /\ x.cols[k].name \in dups
            THEN [x.cols[k] EXCEPT !.name = @ \o suffix]
            ELSE x.cols[k]]]

\* x.dimension_rename(d, d + suffix, ...) for the d of dups that are dimensions
dimension_rename(x, dups, suffix) ==
    [x EXCEPT !.cols =
        [k \in DOMAIN x.cols |->
            IF x.cols[k].kind = "dim" /\ x.cols[k].name \in dups
            THEN [x.cols[k] EXCEPT !.name = @ \o suffix]
            ELSE x.cols[k]]]

\* x.attribute_rename(*renames): renames is a function old name -> new name
attribute_rename_pairs(x, renames) ==
    [x EXCEPT !.cols =
        [k \in DOMAIN x.cols |->
            IF x.cols[k].kind = "att" /\ x.cols[k].name \in DOMAIN renames
            THEN [x.cols[k] EXCEPT !.name = renames[@]]
            ELSE x.cols[k]]]

\* the values of column n of x
ColValues(x, n) == {x.rows[i][ColIdx(x, n)] : i \in DOMAIN x.rows}

\* uniq(sort(hstack((lidx, ridx)))): the sorted union of both sides' distinct
\* key values; the surrogate of a value is its position, counted from 0
IndexOf(idx, v) == Cardinality({w \in idx : w < v})

\* afl.index_lookup(x, idx, key, out): a new integer attribute `out` holding,
\* for every row, the position of the row's `key` value in idx
index_lookup(x, idx, key, out) ==
    [cols |-> Append(x.cols,
                     [name |-> out, kind |-> "att", type |-> "int64", gen |-> TRUE]),
     rows |-> [i \in DOMAIN x.rows |->
                  Append(x.rows[i], IndexOf(idx, x.rows[i][ColIdx(x, key)]))]]

\* schema_utils.to_dimensions(x, *names): the named attributes become
\* dimensions; names that are dimensions already are left alone
to_dimensions(x, names) ==
    [x EXCEPT !.cols =
        [k \in DOMAIN x.cols |->
            IF x.cols[k].name \in Range(names)
            THEN [x.cols[k] EXCEPT !.kind = "dim"]
            ELSE x.cols[k]]]

\* utils.interleave(left_on, right_on), as the list of pairs it flattens
interleave(lon, ron) ==
    [i \in 1..(IF Len(lon) < Len(ron) THEN Len(lon) ELSE Len(ron)) |->
        <<lon[i], ron[i]>>]

----------------------------------------------------------------------------
\* _apply_suffix (lines 60-89)

_relabel(x, dups, suffix) ==
    dimension_rename(attribute_rename(x, dups, suffix), dups, suffix)

\* left_on / right_on as lines 72-76 rewrite them
suffix_left_on(lon, ron, suffixes) ==
    [i \in DOMAIN lon |->
        IF lon[i] \notin Range(ron) THEN lon[i] ELSE lon[i] \o suffixes[1]]

suffix_right_on(lon, ron, suffixes) ==
    [i \in DOMAIN ron |->
        IF ron[i] \notin Range(lon) THEN ron[i] ELSE ron[i] \o suffixes[2]]

\* duplicates = list(lnames & rnames)
duplicates(l, r) == NameSet(l) \cap NameSet(r)

apply_suffix(l, r, lon, ron, suffixes) ==
    [left     |-> _relabel(l, duplicates(l, r), suffixes[1]),
     right    |-> _relabel(r, duplicates(l, r), suffixes[2]),
     left_on  |-> suffix_left_on(lon, ron, suffixes),
     right_on |-> suffix_right_on(lon, ron, suffixes)]

----------------------------------------------------------------------------
\* _prepare_join_schema (lines 9-58)

\* dt = dict((nm, typ) for nm, typ, _ in left.sdbtype.full_rep): the declared
\* type of every attribute of left
declared_types(l) ==
    [n \in Range(att_names(l)) |-> l.cols[ColIdx(l, n)].type]

\* line 21: the key pair needs no surrogate
skip_surrogate(dt, l) == l \notin DOMAIN dt \/ IsIntType(dt[l])

\* right[r] and the stacking of both sides' values need r to be an attribute
\* of right of the type of l
CanIndex(dt, l, r, st) ==
    /\ r \in Range(att_names(st.right))
    /\ st.right.cols[ColIdx(st.right, r)].type = dt[l]

\* lines 24-51 for one key pair (l, r) at position i
build_surrogate(i, l, r, st) ==
    LET left_att  == new_attribute_label(l \o IdxSuffix, st.left)
        right_att == new_attribute_label(r \o IdxSuffix, st.right)
        idx       == ColValues(st.left, l) \cup ColValues(st.right, r)
    IN  [st EXCEPT
            !.left      = index_lookup(st.left, idx, l, left_att),
            !.new_left  = [@ EXCEPT ![i] = left_att],
            !.right     = index_lookup(st.right, idx, r, right_att),
            !.new_right = [@ EXCEPT ![i] = right_att],
            !.calls     = @ \cup {"sort", "uniq", "eval", "hstack", "as_",
                                   "att_names", "attribute_rename", "index_lookup"}]

\* the loop of lines 20-51 from position i on
RECURSIVE surrogate_loop(_, _, _, _, _)
surrogate_loop(i, lon, ron, dt, st) ==
    IF i > Len(interleave(lon, ron)) \/ st.err # "none" THEN st
    ELSE IF skip_surrogate(dt, lon[i]) THEN surrogate_loop(i + 1, lon, ron, dt, st)
    ELSE IF ~CanIndex(dt, lon[i], ron[i], st)
         THEN [st EXCEPT !.err = "EngineError",
                         !.calls = @ \cup {"sort", "uniq", "eval"}]
    ELSE surrogate_loop(i + 1, lon, ron, dt, build_surrogate(i, lon[i], ron[i], st))

prepare_join_schema(l, r, lon, ron) ==
    LET st0 == [left |-> l, right |-> r, new_left |-> lon, new_right |-> ron,
                err |-> "none", calls |-> {}]
        st  == surrogate_loop(1, lon, ron, declared_types(l), st0)
    IN  IF st.err # "none" THEN st
        ELSE IF ~(Range(st.new_left) \subseteq NameSet(st.left)
                  /\ Range(st.new_right) \subseteq NameSet(st.right))
             THEN [st EXCEPT !.err = "EngineError",
                             !.calls = @ \cup {"to_dimensions"}]
        ELSE [st EXCEPT !.left  = to_dimensions(st.left, st.new_left),
                        !.right = to_dimensions(st.right, st.new_right),
                        !.calls = @ \cup {"to_dimensions"}]

----------------------------------------------------------------------------
\* The native join and the post-processing primitives

IsIntDim(x, n) ==
    \E k \in DOMAIN x.cols :
        x.cols[k].name = n /\ x.cols[k].kind = "dim" /\ IsIntType(x.cols[k].type)

\* the columns of r that survive the join: all but its joined dimensions
JoinRest(r, pairs) ==
    SelectSeq([k \in DOMAIN r.cols |-> k],
              LAMBDA k : ~(r.cols[k].kind = "dim"
                           /\ \E p \in DOMAIN pairs : pairs[p][2] = r.cols[k].name))

\* the engine joins integer dimensions only, and rejects a result schema in
\* which two columns share a name
CanJoin(l, r, pairs) ==
    /\ \A p \in DOMAIN pairs : IsIntDim(l, pairs[p][1]) /\ IsIntDim(r, pairs[p][2])
    /\ SchemaOk(l) /\ SchemaOk(r)
    /\ NoDup(ColNames(l) \o ColNames(Pick(r, JoinRest(r, pairs))))

\* robust.cross_join(l, r, *dims): every pair of a left row and a right row
\* that agree on every pair of joined dimensions
cross_join(l, r, pairs) ==
    LET m     == Len(r.rows)
        rest  == Pick(r, JoinRest(r, pairs))
        match(q) == \A p \in DOMAIN pairs :
                        l.rows[q[1]][ColIdx(l, pairs[p][1])]
                            = r.rows[q[2]][ColIdx(r, pairs[p][2])]
        all   == [k \in 1..(Len(l.rows) * m) |->
                     <<((k - 1) \div m) + 1, ((k - 1) % m) + 1>>]
        pr    == SelectSeq(all, match)
        both  == [cols |-> l.cols \o rest.cols,
                  rows |-> [k \in DOMAIN pr |->
                               l.rows[pr[k][1]] \o rest.rows[pr[k][2]]]]
    IN  [array |-> Pick(both, DimPos(both) \o AttPos(both)), prov |-> pr]

\* x.unpack(idx): one dimension idx; every former dimension is an attribute
unpack(x, idx) ==
    [cols |-> <<[name |-> idx, kind |-> "dim", type |-> "int64", gen |-> FALSE]>>
              \o [k \in DOMAIN x.cols |-> [x.cols[k] EXCEPT !.kind = "att"]],
     rows |-> [i \in DOMAIN x.rows |-> <<i - 1>> \o x.rows[i]]]

\* x.project(*atts): the dimensions and the named attributes
project(x, atts) ==
    Pick(x, SelectSeq([k \in DOMAIN x.cols |-> k],
                      LAMBDA k : x.cols[k].kind = "dim"
                                 \/ x.cols[k].name \in Range(atts)))

\* an array has at least one attribute: the engine rejects a projection
\* onto no attribute
CanProject(atts) == atts # <<>>

----------------------------------------------------------------------------
\* merge (lines 92-238)

NoneArg == [tag |-> "none", v |-> <<>>]

Fail(e) == [err |-> e, left_on |-> <<>>, right_on |-> <<>>]

\* lines 195-200 without the loop over right_on
check_names_left_only(lnames, rnames, lon, ron) ==
    IF \E i \in DOMAIN lon : lon[i] \notin lnames THEN Fail("ValueError")
    ELSE [err |-> "none", left_on |-> lon, right_on |-> ron]

\* lines 195-200
check_names(lnames, rnames, lon, ron) ==
    IF \E i \in DOMAIN lon : lon[i] \notin lnames THEN Fail("ValueError")
    ELSE IF \E i \in DOMAIN ron : ron[i] \notin rnames THEN Fail("ValueError")
    ELSE [err |-> "none", left_on |-> lon, right_on |-> ron]

\* lines 174-200; shared is list(lnames & rnames) in the order the set
\* iteration happened to give
resolve_keys(lnames, rnames, a, shared) ==
    IF a.how # "inner" THEN Fail("NotImplementedError")
    ELSE IF (a.left_on.tag # "none" \/ a.right_on.tag # "none") /\ a.on.tag # "none"
         THEN Fail("ValueError")
    ELSE IF a.left_on.tag # "none" \/ a.right_on.tag # "none"
         THEN IF a.left_on.tag = "none" \/ a.right_on.tag = "none"
              THEN Fail("ValueError")
              ELSE IF Len(as_list(a.left_on)) # Len(as_list(a.right_on))
                   THEN Fail("ValueError")
                   ELSE check_names(lnames, rnames,
                                    as_list(a.left_on), as_list(a.right_on))
    ELSE LET on == IF Truthy(a.on) THEN as_list(a.on) ELSE shared
         IN  check_names(lnames, rnames, on, on)

\* lines 209-211
compute_keep(l, r, ron) == (NameSet(l) \cup NameSet(r)) \ Range(ron)

\* line 225
kept_atts(x, k) == SelectSeq(att_names(x), LAMBDA a : a \in k)

\* lines 229-235: the renames of the final cleanup, old name -> new name
drop_renames(x, suffixes) ==
    [a \in {b \in Range(att_names(x)) :
                /\ EndsWith(b, suffixes[1])
                /\ Replace(b, suffixes[1], suffixes[2]) \notin Range(att_names(x))}
        |-> Replace(a, suffixes[1], <<>>)]

----------------------------------------------------------------------------
\* The pipeline of merge, one action per stage

Perms(S) ==
    {f \in [1..Cardinality(S) -> S] : \A i, j \in DOMAIN f : i # j => f[i] # f[j]}

EmptyArray == [cols |-> <<>>, rows |-> <<>>]

\* lines 171-200: read both name sets, then validate the arguments
Validate ==
    /\ pc = "start"
    /\ \E shared \in Perms(NameSet(left) \cap NameSet(right)) :
          LET rk == resolve_keys(NameSet(left), NameSet(right), args, shared)
          IN  /\ err' = rk.err
              /\ IF rk.err = "none"
                 THEN left_on' = rk.left_on /\ right_on' = rk.right_on
                 ELSE UNCHANGED <<left_on, right_on>>
    /\ calls' = calls \cup {"att_names", "dim_names"}
    /\ pc' = "validated"
    /\ UNCHANGED <<args, left, right, keep, result, prov, disambiguated>>

\* lines 203-211: _apply_suffix, then keep from the rewritten names
Disambiguate ==
    /\ pc = "validated" /\ err = "none"
    /\ LET s == apply_suffix(left, right, left_on, right_on, args.suffixes)
       IN  /\ left' = s.left
           /\ right' = s.right
           /\ left_on' = s.left_on
           /\ right_on' = s.right_on
           /\ disambiguated' = s
           /\ IF SchemaOk(s.left) /\ SchemaOk(s.right)
              THEN /\ keep' = compute_keep(s.left, s.right, s.right_on)
                   /\ err' = "none"
              ELSE /\ keep' = keep
                   /\ err' = "EngineError"
    /\ calls' = calls \cup {"att_names", "dim_names",
                             "attribute_rename", "dimension_rename"}
    /\ pc' = "suffixed"
    /\ UNCHANGED <<args, result, prov>>

\* line 216: _prepare_join_schema
Materialize ==
    /\ pc = "suffixed" /\ err = "none"
    /\ LET st == prepare_join_schema(left, right, left_on, right_on)
       IN  /\ left' = st.left
           /\ right' = st.right
           /\ left_on' = st.new_left
           /\ right_on' = st.new_right
           /\ err' = st.err
           /\ calls' = calls \cup st.calls
    /\ pc' = "prepared"
    /\ UNCHANGED <<args, keep, result, prov, disambiguated>>

\* line 219: cross_join over the interleaved key dimensions
Join ==
    /\ pc = "prepared" /\ err = "none"
    /\ IF CanJoin(left, right, interleave(left_on, right_on))
       THEN LET j == cross_join(left, right, interleave(left_on, right_on))
            IN  /\ result' = j.array
                /\ prov' = j.prov
                /\ err' = "none"
       ELSE /\ err' = "EngineError"
            /\ UNCHANGED <<result, prov>>
    /\ calls' = calls \cup {"cross_join"}
    /\ pc' = "joined"
    /\ UNCHANGED <<args, left, right, left_on, right_on, keep, disambiguated>>

\* lines 223-225: unpack into a row index, project onto keep
Project ==
    /\ pc = "joined" /\ err = "none"
    /\ LET u == unpack(result, new_attribute_label(RowLabel, result))
       IN  IF CanProject(kept_atts(u, keep))
           THEN /\ result' = project(u, kept_atts(u, keep))
                /\ err' = "none"
           ELSE /\ result' = u
                /\ err' = "EngineError"
    /\ calls' = calls \cup {"att_names", "unpack", "project"}
    /\ pc' = "projected"
    /\ UNCHANGED <<args, left, right, left_on, right_on, keep, prov, disambiguated>>

\* lines 229-238: strip the left suffix where its counterpart is absent
DropSuffixes ==
    /\ pc = "projected" /\ err = "none"
    /\ LET out == attribute_rename_pairs(result, drop_renames(result, args.suffixes))
       IN  /\ result' = out
           /\ err' = IF SchemaOk(out) THEN "none" ELSE "EngineError"
    /\ calls' = calls \cup {"att_names", "attribute_rename"}
    /\ pc' = "done"
    /\ UNCHANGED <<args, left, right, left_on, right_on, keep, prov, disambiguated>>

Next ==
    \/ Validate
    \/ Disambiguate
    \/ Materialize
    \/ Join
    \/ Project
    \/ DropSuffixes

----------------------------------------------------------------------------
\* Inputs

Suffixes == << <<"_", "x">>, <<"_", "y">> >>      \* the default of line 93

NameA    == <<"a">>
NameB    == <<"b">>
NameAx   == <<"a", "_", "x">>
NameAIdx == <<"a", "_", "i", "d", "x">>

NamePool == <<NameA, NameAx, NameAIdx>>
DataPool == <<NameA, NameB>>

AttTypes == {"int64", "string"}

Col(n, k, t) == [name |-> n, kind |-> k, type |-> t, gen |-> FALSE]

\* the attribute lists of at most n columns over the names of pool other than
\* pool[d], in pool order
AttLists(pool, d, n) ==
    UNION {
        {[i \in 1..k |-> Col(pool[f[i][1]], "att", f[i][2])] :
            f \in {g \in [1..k -> (DOMAIN pool) \X AttTypes] :
                      /\ \A i \in 1..k : g[i][1] # d
                      /\ \A i, j \in 1..k : i < j => g[i][1] < g[j][1]}}
        : k \in 0..n}

\* the schemas over pool: one integer dimension, at most MaxCols columns
Schemas(pool) ==
    UNION {
        {<<Col(pool[d], "dim", "int64")>> \o atts : atts \in AttLists(pool, d, MaxCols - 1)}
        : d \in DOMAIN pool}

\* the cells of an array with the columns c: at most MaxRows rows, at
\* increasing coordinates of the dimension
RowLists(c) ==
    UNION {
        {r \in [1..k -> [1..Len(c) -> 1..MaxVal]] :
            \A i, j \in 1..k : i < j => r[i][1] < r[j][1]}
        : k \in 0..MaxRows}

KeyLists(S) == UNION {[1..k -> S] : k \in 1..MaxKeys}

ListArg(s) == [tag |-> "list", v |-> s]
StrArg(n)  == [tag |-> "str", v |-> n]

\* key specifications naming columns that exist
KeySpecs(l, r) ==
    {[on |-> NoneArg, left_on |-> NoneArg, right_on |-> NoneArg]}
    \cup {[on |-> ListArg(o), left_on |-> NoneArg, right_on |-> NoneArg] :
             o \in KeyLists(NameSet(l) \cap NameSet(r))}
    \cup {[on |-> NoneArg, left_on |-> ListArg(k[1]), right_on |-> ListArg(k[2])] :
             k \in {q \in KeyLists(NameSet(l)) \X KeyLists(NameSet(r)) :
                       Len(q[1]) = Len(q[2])}}

ArgNames == {NameA, NameB}

\* every shape an argument takes: None, a bare name, a list
ArgVals ==
    {NoneArg} \cup {StrArg(n) : n \in ArgNames}
    \cup {ListArg(s) : s \in UNION {[1..k -> ArgNames] : k \in 0..MaxKeys}}

Hows == {"inner", "left", "outer"}

Start(l, r, k, how) ==
    /\ args = [left |-> l, right |-> r, on |-> k.on, left_on |-> k.left_on,
               right_on |-> k.right_on, how |-> how, suffixes |-> Suffixes]
    /\ left = l
    /\ right = r
    /\ left_on = k.left_on
    /\ right_on = k.right_on
    /\ keep = {}
    /\ result = EmptyArray
    /\ prov = <<>>
    /\ disambiguated = [left |-> EmptyArray, right |-> EmptyArray,
                        left_on |-> <<>>, right_on |-> <<>>]
    /\ calls = {}
    /\ pc = "start"
    /\ err = "none"

\* empty arrays over NamePool, inner joins on existing columns
Init ==
    \E cl \in Schemas(NamePool), cr \in Schemas(NamePool) :
        LET l == [cols |-> cl, rows |-> <<>>]
            r == [cols |-> cr, rows |-> <<>>]
        IN  \E k \in KeySpecs(l, r) : Start(l, r, k, "inner")

\* empty arrays over DataPool, every shape of the arguments
InitArgs ==
    \E cl \in Schemas(DataPool), cr \in Schemas(DataPool) :
        \E on \in ArgVals, lo \in ArgVals, ro \in ArgVals, how \in Hows :
            Start([cols |-> cl, rows |-> <<>>], [cols |-> cr, rows |-> <<>>],
                  [on |-> on, left_on |-> lo, right_on |-> ro], how)

\* arrays with cells over DataPool, inner joins on existing columns
InitData ==
    \E cl \in Schemas(DataPool), cr \in Schemas(DataPool) :
        \E rl \in RowLists(cl), rr \in RowLists(cr) :
            LET l == [cols |-> cl, rows |-> rl]
                r == [cols |-> cr, rows |-> rr]
            IN  \E k \in KeySpecs(l, r) : Start(l, r, k, "inner")

Spec     == Init /\ [][Next]_vars
SpecArgs == InitArgs /\ [][Next]_vars
SpecData == InitData /\ [][Next]_vars

----------------------------------------------------------------------------
\* Properties

\* the engine calls that transform an array
EngineCalls ==
    {"attribute_rename", "dimension_rename", "index_lookup", "to_dimensions",
     "cross_join", "unpack", "project", "sort", "uniq", "hstack", "eval", "as_"}

Given(x) == x.tag # "none"

Shared(a) == NameSet(a.left) \cap NameSet(a.right)

\* the key names the caller asked for, per side, as sets
AskedLeft(a) ==
    IF Given(a.left_on) THEN Range(as_list(a.left_on))
    ELSE IF Truthy(a.on) THEN Range(as_list(a.on)) ELSE Shared(a)

AskedRight(a) ==
    IF Given(a.right_on) THEN Range(as_list(a.right_on))
    ELSE IF Truthy(a.on) THEN Range(as_list(a.on)) ELSE Shared(a)

\* a conflicting or incomplete key specification
Conflicting(a) ==
    \/ Given(a.on) /\ (Given(a.left_on) \/ Given(a.right_on))
    \/ Given(a.left_on) /\ ~Given(a.right_on)
    \/ ~Given(a.left_on) /\ Given(a.right_on)
    \/ /\ Given(a.left_on) /\ Given(a.right_on)
       /\ Len(as_list(a.left_on)) # Len(as_list(a.right_on))
    \/ ~(AskedLeft(a) \subseteq NameSet(a.left))
    \/ ~(AskedRight(a) \subseteq NameSet(a.right))

\* C5: with no shared name and no key argument, merge fails with a
\* ValueError (the empty default key set is rejected) and goes no further.
C5_EmptyDefaultRejected ==
    (/\ Shared(args) = {}
     /\ ~Given(args.on) /\ ~Given(args.left_on) /\ ~Given(args.right_on)
     /\ args.how = "inner"
     /\ pc # "start")
        => (pc = "validated" /\ err = "ValueError")

\* C6: with how = 'inner', a conflicting or incomplete key specification makes
\* merge fail with a ValueError in validation, before any rename, index
\* lookup, promotion, join, unpack or project call was issued.
C6_ConflictFailsFast ==
    (args.how = "inner" /\ Conflicting(args) /\ pc # "start")
        => (/\ pc = "validated"
            /\ err = "ValueError"
            /\ calls \cap EngineCalls = {})

\* a key name missing from its side was given, validation ran and raised
C6_Witness ==
    /\ pc = "validated"
    /\ err = "ValueError"
    /\ args.how = "inner"
    /\ Given(args.left_on) /\ Given(args.right_on) /\ ~Given(args.on)
    /\ Len(as_list(args.left_on)) = Len(as_list(args.right_on))
    /\ AskedLeft(args) \subseteq NameSet(args.left)
    /\ ~(AskedRight(args) \subseteq NameSet(args.right))

\* C7: with how # 'inner', merge fails with NotImplementedError without
\* having invoked any collaborator, not even to read a name list.
C7_UnsupportedHowTouchesNothing ==
    (args.how # "inner" /\ pc # "start")
        => (err = "NotImplementedError" /\ calls = {})

\* C8: when _prepare_join_schema has returned, every rewritten key name of
\* either side is an integer-typed dimension of its rewritten handle.
C8_KeysAreIntegerDimensions ==
    (pc = "prepared" /\ err = "none")
        => \A i \in DOMAIN left_on :
               IsIntDim(left, left_on[i]) /\ IsIntDim(right, right_on[i])

\* C9: when _apply_suffix has returned, every rewritten left key names a
\* column of the rewritten left handle, and every rewritten right key a
\* column of the rewritten right handle.
C9_KeysNameColumns ==
    (pc = "suffixed" /\ err = "none")
        => /\ Range(left_on) \subseteq NameSet(left)
           /\ Range(right_on) \subseteq NameSet(right)

\* C10: the inputs' names being pairwise distinct within each side, the names
\* within each handle _apply_suffix asks for are pairwise distinct, and so
\* are the attribute names the final cleanup asks for.
C10_NoNameCollision ==
    (SchemaOk(args.left) /\ SchemaOk(args.right))
        => /\ pc = "suffixed" => SchemaOk(left) /\ SchemaOk(right)
           /\ pc = "done" => NoDup(att_names(result))

\* C2: before the final cleanup, the attributes of the result are exactly the
\* names _apply_suffix gave both sides minus the rewritten right keys: every
\* rewritten left key is there, no rewritten right key is, and no attribute
\* created by _prepare_join_schema is.
C2_ResultColumns ==
    (pc = "projected" /\ err = "none")
        => /\ Range(att_names(result))
                = (NameSet(disambiguated.left) \cup NameSet(disambiguated.right))
                      \ Range(disambiguated.right_on)
           /\ Range(disambiguated.left_on) \subseteq Range(att_names(result))
           /\ Range(disambiguated.right_on) \cap Range(att_names(result)) = {}
           /\ \A k \in DOMAIN result.cols : ~result.cols[k].gen

\* the names that are non-key columns of both inputs
NonKeyShared(a) == Shared(a) \ (AskedLeft(a) \cup AskedRight(a))

\* C3: for every name n that is a non-key column of both inputs, the result
\* of merge has both n + suffixes[0] and n + suffixes[1].
C3_BothSuffixedKept ==
    (pc = "done" /\ err = "none")
        => \A n \in NonKeyShared(args) :
               /\ n \o args.suffixes[1] \in Range(att_names(result))
               /\ n \o args.suffixes[2] \in Range(att_names(result))

\* C4: when the only names both inputs share are the keys given by on, the
\* attributes of the result are exactly the original column names of both
\* inputs.
C4_SuffixesRestored ==
    (/\ pc = "done" /\ err = "none"
     /\ Truthy(args.on) /\ ~Given(args.left_on) /\ ~Given(args.right_on)
     /\ Shared(args) = Range(as_list(args.on)))
        => Range(att_names(result)) = NameSet(args.left) \cup NameSet(args.right)

\* the key lists validation resolves the arguments to
SharedSeq(a) == CHOOSE f \in Perms(Shared(a)) : TRUE

OrigLeftOn(a) ==
    IF Given(a.left_on) THEN as_list(a.left_on)
    ELSE IF Truthy(a.on) THEN as_list(a.on) ELSE SharedSeq(a)

OrigRightOn(a) ==
    IF Given(a.right_on) THEN as_list(a.right_on)
    ELSE IF Truthy(a.on) THEN as_list(a.on) ELSE SharedSeq(a)

TypeOf(x, n) == x.cols[ColIdx(x, n)].type

\* every key pair pairs two columns of one declared type
KeyTypesAgree(a) ==
    \A p \in DOMAIN OrigLeftOn(a) :
        TypeOf(a.left, OrigLeftOn(a)[p]) = TypeOf(a.right, OrigRightOn(a)[p])

\* left row i and right row j agree in every key position
KeysEqual(a, i, j) ==
    \A p \in DOMAIN OrigLeftOn(a) :
        a.left.rows[i][ColIdx(a.left, OrigLeftOn(a)[p])]
            = a.right.rows[j][ColIdx(a.right, OrigRightOn(a)[p])]

Count(s, q) == Cardinality({k \in DOMAIN s : s[k] = q})

\* the rows of the result are exactly the pairs of rows with equal keys
InnerEquiJoin(a) ==
    /\ Len(result.rows) = Len(prov)
    /\ \A i \in DOMAIN a.left.rows, j \in DOMAIN a.right.rows :
           Count(prov, <<i, j>>) = IF KeysEqual(a, i, j) THEN 1 ELSE 0

Terminated == pc = "done" \/ err # "none"

\* C1: for all arrays and all paired key lists that pass validation, merge
\* returns a result holding, for each left row, exactly one row per right
\* row with equal key values in every key position.
C1_InnerEquiJoinRows ==
    (Terminated /\ ~Conflicting(args) /\ KeyTypesAgree(args))
        => (pc = "done" /\ err = "none" /\ InnerEquiJoin(args))

====
